---- MODULE Spec2Model ----
(***************************************************************************)
(* Model of the tabular data consolidation scripts of the repository:      *)
(*   src/src/utils/multi_sheet_merger.py      (tool "multi")               *)
(*   src/src/utils/easy_multi_sheet_merger.py (tool "easy")                *)
(*   src/src/utils/data_merger.py             (tool "data")                *)
(*   src/src/utils/quick_merge.py             (tool "quick")               *)
(*   src/src/utils/finance_data_merger.py     (tool "finance")             *)
(* of the table functions                                                  *)
(*   src/src/data_loader.py, src/src/feature_engineering.py                *)
(* and of the runner src/scripts/comprehensive_analysis_runner.py.         *)
(* Each program has its own variables and its own specification; the       *)
(* variables of the programs that do not run stay as they are.             *)
(* A file name is a sequence of one-character strings.  A directory entry  *)
(* is a record [name, readable, rows, regular, decodes]: its base name,     *)
(* whether pandas can parse it, the number of data rows of its table,      *)
(* whether it is a regular file, and the encodings under which its bytes   *)
(* decode.  A discovered file is an entry with the place it                *)
(* was found at (dir, pos); its path within one run is its position in the *)
(* discovered list.                                                        *)
(***************************************************************************)
EXTENDS Integers, Sequences, FiniteSets, TLC

\* ---------------------------------------------------------------- bounds

\* Largest number of files one discovery returns in Spec.
MaxFiles == 3

\* Largest number of files of a mixed discovery in SpecNames.
MaxNameFiles == 3

\* A small configured sheet ceiling, next to the shipped one (MAX_SHEETS).
SmallCeiling == 2

\* Largest number of entries of directory 1 in SpecScan.
MaxEntries == 2

\* Largest number of rows of a table passed to the table functions.
MaxRows == 3

\* Largest number of calls of the table functions in a row.
MaxOps == 2

\* Largest number of merge_data calls on a DataMerger after main's own.
MaxCalls == 1

\* ------------------------------------------------ configuration constants

MAX_SHEETS == 200

MAX_SHEET_NAME_LEN == 31

ENABLE_SUMMARY == TRUE

\* easy_multi_sheet_merger.py: the file information below each sheet's data.
INCLUDE_FILE_INFO == TRUE

\* easy_multi_sheet_merger.py cuts the base name to this many characters
\* before the collision suffix.
EASY_BASE_LEN == 25

\* The extensions are scanned in the order of the list.
SUPPORTED_FORMATS == << <<".","x","l","s","x">>, <<".","c","s","v">>, <<".","x","l","s">> >>

\* DataMerger.supported_formats, and SUPPORTED_FORMATS of quick_merge.py
DM_SUPPORTED_FORMATS == << <<".","x","l","s","x">>, <<".","c","s","v">> >>

\* The characters Excel forbids in a sheet name.
invalid_chars == { "\\", "/", "?", "*", "[", "]", ":" }

\* ------------------------------------------------------- string helpers

RECURSIVE Rep(_, _)
\* c repeated n times ('x' * n).
Rep(c, n) == IF n = 0 THEN << >> ELSE <<c>> \o Rep(c, n - 1)

Digit(d) ==
    CASE d = 0 -> "0" [] d = 1 -> "1" [] d = 2 -> "2" [] d = 3 -> "3"
      [] d = 4 -> "4" [] d = 5 -> "5" [] d = 6 -> "6" [] d = 7 -> "7"
      [] d = 8 -> "8" [] d = 9 -> "9"

RECURSIVE ToStr(_)
\* The decimal digits of n >= 0, as the f-string f"{counter}" prints them.
ToStr(n) == IF n < 10 THEN << Digit(n) >>
            ELSE ToStr(n \div 10) \o << Digit(n % 10) >>

\* str.lower() on the letters that occur in the extensions.
Lower(c) ==
    CASE c = "C" -> "c" [] c = "S" -> "s" [] c = "V" -> "v"
      [] c = "X" -> "x" [] c = "L" -> "l"
      [] OTHER -> c

\* Position of the last "." of name, 0 when it has none (str.rfind).
LastDot(name) ==
    LET dots == { k \in 1..Len(name) : name[k] = "." }
    IN  IF dots = {} THEN 0
        ELSE CHOOSE k \in dots : \A j \in dots : j <= k

\* pathlib's PurePath.stem: the name without its last suffix; a leading or a
\* trailing dot starts no suffix.
Stem(name) ==
    LET d == LastDot(name)
    IN  IF d > 1 /\ d < Len(name) THEN SubSeq(name, 1, d - 1) ELSE name

\* pathlib's PurePath.suffix, lower-cased as the scripts do.
SuffixLower(name) ==
    LET d == LastDot(name)
    IN  IF d > 1 /\ d < Len(name)
        THEN [ k \in 1..(Len(name) - d + 1) |-> Lower(name[d + k - 1]) ]
        ELSE << >>

\* name[:n]
Prefix(name, n) == SubSeq(name, 1, IF n < Len(name) THEN n ELSE Len(name))

\* ---------------------------------------------------- sheet name allocation

\* The loop of name.replace(char, '_') over invalid_chars.
ReplaceInvalid(name) ==
    [ k \in 1..Len(name) |-> IF name[k] \in invalid_chars THEN "_" ELSE name[k] ]

\* The length limit as a plain cut to MAX_SHEET_NAME_LEN characters, without
\* the three dots.
TruncateCut(name) == Prefix(name, MAX_SHEET_NAME_LEN)

\* The length limit of clean_sheet_name.
Truncate(name) ==
    IF Len(name) > MAX_SHEET_NAME_LEN
    THEN Prefix(name, MAX_SHEET_NAME_LEN - 3) \o <<".", ".", ".">>
    ELSE name

\* MultiSheetMerger.clean_sheet_name
clean_sheet_name(filename) == Truncate(ReplaceInvalid(Stem(filename)))

\* The base cut one character too long, as if the suffix were "_N" with one
\* more character to spare.
MultiCandidateLong(original_name, counter) ==
    IF Len(original_name) > MAX_SHEET_NAME_LEN - 3
    THEN Prefix(original_name, MAX_SHEET_NAME_LEN - 3) \o <<"_">> \o ToStr(counter)
    ELSE original_name \o <<"_">> \o ToStr(counter)

\* One candidate of MultiSheetMerger.read_single_file's collision loop.
MultiCandidate(original_name, counter) ==
    IF Len(original_name) > MAX_SHEET_NAME_LEN - 4
    THEN Prefix(original_name, MAX_SHEET_NAME_LEN - 4) \o <<"_">> \o ToStr(counter)
    ELSE original_name \o <<"_">> \o ToStr(counter)

\* One candidate of easy_multi_sheet_merger's collision loop.
EasyCandidate(original_name, counter) ==
    Prefix(original_name, EASY_BASE_LEN) \o <<"_">> \o ToStr(counter)

Candidate(t, original_name, counter) ==
    IF t = "multi" THEN MultiCandidate(original_name, counter)
    ELSE EasyCandidate(original_name, counter)

\* The suffix taken from the number of names given so far, not searched for.
UniqueLoopCount(t, original_name, existing_names) ==
    IF original_name \notin existing_names THEN original_name
    ELSE Candidate(t, original_name, Cardinality(existing_names))

\* The collision check as an if, not a while: one new candidate, unchecked.
UniqueLoopOnce(t, original_name, existing_names) ==
    IF original_name \in existing_names
    THEN Candidate(t, original_name, 1)
    ELSE original_name

\* while sheet_name in existing_names: sheet_name = candidate; counter += 1.
\* The loop leaves with the candidate of the first counter whose candidate is
\* not taken; the candidates of different counters differ, so one of the
\* first len(existing_names) + 1 is free.
UniqueLoop(t, original_name, existing_names) ==
    IF original_name \notin existing_names THEN original_name
    ELSE LET free == { c \in 1..(Cardinality(existing_names) + 1) :
                         Candidate(t, original_name, c) \notin existing_names }
         IN  Candidate(t, original_name, CHOOSE c \in free : \A d \in free : c <= d)

\* The inline name clean-up of easy_multi_sheet_merger.merge_data_to_sheets.
EasyClean(filename) ==
    LET sheet_name == ReplaceInvalid(Stem(filename))
    IN  IF Len(sheet_name) > 31 THEN Prefix(sheet_name, 28) \o <<".", ".", ".">>
        ELSE sheet_name

\* The sheet name tool t gives filename when existing_names are taken.
Allocate(t, filename, existing_names) ==
    LET original_name == IF t = "multi" THEN clean_sheet_name(filename)
                         ELSE EasyClean(filename)
    IN  UniqueLoop(t, original_name, existing_names)

\* ------------------------------------------------------------ file system

\* The encodings read_csv is tried with, in the order of the nested try
\* blocks.
ENCODINGS == << "utf-8", "gbk", "latin-1" >>

\* A file of ASCII bytes decodes under each of them.
Ascii == { "utf-8", "gbk", "latin-1" }

\* The files a root folder may hold.  FileA and FileB get the same sheet name
\* only after character replacement; FileBad cannot be read; FileLong has a
\* 33-character stem and a table without rows; FileLong2's stem differs from
\* FileLong's in its 30th character only, past the cut of the length limit.
FileA == [ name |-> <<"r","_",".","c","s","v">>, readable |-> TRUE, rows |-> 1,
           regular |-> TRUE, decodes |-> Ascii ]

FileB == [ name |-> <<"r",":",".","x","l","s","x">>, readable |-> TRUE, rows |-> 2,
           regular |-> TRUE, decodes |-> Ascii ]

FileBad == [ name |-> <<"b",".","c","s","v">>, readable |-> FALSE, rows |-> 0,
           regular |-> TRUE, decodes |-> Ascii ]

FileLong == [ name |-> Rep("x", 33) \o <<".","c","s","v">>, readable |-> TRUE, rows |-> 0,
           regular |-> TRUE, decodes |-> Ascii ]

FileLong2 == [ name |-> Rep("x", 29) \o <<"y">> \o Rep("x", 3) \o <<".","x","l","s">>,
               readable |-> TRUE, rows |-> 1,
           regular |-> TRUE, decodes |-> Ascii ]

Files == { FileA, FileB, FileBad, FileLong, FileLong2 }

\* More file names, for the runs of SpecNames: stems of 27 and of 31
\* characters, the two sides of the collision loop's length test, and a stem
\* that is itself the first suffixed name of FileA's.
File27 == [ name |-> Rep("a", 27) \o <<".","c","s","v">>, readable |-> TRUE, rows |-> 1,
           regular |-> TRUE, decodes |-> Ascii ]

File31 == [ name |-> Rep("b", 31) \o <<".","c","s","v">>, readable |-> TRUE, rows |-> 1,
           regular |-> TRUE, decodes |-> Ascii ]

FileSuffixed == [ name |-> <<"r","_","_","1",".","c","s","v">>, readable |-> TRUE, rows |-> 1,
           regular |-> TRUE, decodes |-> Ascii ]

\* A stem of 32 characters, the shortest that the length limit cuts; its
\* 29th character is one that Excel forbids.
File32 == [ name |-> Rep("c", 28) \o <<":">> \o Rep("d", 3) \o <<".","c","s","v">>,
            readable |-> TRUE, rows |-> 1, regular |-> TRUE, decodes |-> Ascii ]

NameFiles == { FileA, FileB, FileLong, FileLong2, File27, File31, File32, FileSuffixed }

\* The file f found n times (the same base name in n folders).
RepList(f, n) == [ k \in 1..n |-> f ]

\* The files found in more folders than MAX_SHEETS in SpecNames.
ManyFiles == { FileB, File27, FileLong }

\* Entries of the folders of SpecScan: an upper-case extension, a hidden
\* file, a directory named like a data file, an .xls workbook.
FileUpper == [ name |-> <<"d",".","C","S","V">>, readable |-> TRUE, rows |-> 1,
               regular |-> TRUE, decodes |-> Ascii ]

FileHidden == [ name |-> <<".","h",".","c","s","v">>, readable |-> TRUE, rows |-> 1,
                regular |-> TRUE, decodes |-> Ascii ]

FileDir == [ name |-> <<"v",".","c","s","v">>, readable |-> FALSE, rows |-> 0,
             regular |-> FALSE, decodes |-> Ascii ]

FileXls == [ name |-> <<"s",".","x","l","s">>, readable |-> TRUE, rows |-> 1,
             regular |-> TRUE, decodes |-> Ascii ]

\* CSV files of SpecRead that are not UTF-8: one in GBK, one that only
\* Latin-1 decodes, and one in GBK that the parser rejects.
FileGbk == [ name |-> <<"g",".","c","s","v">>, readable |-> TRUE, rows |-> 1,
             regular |-> TRUE, decodes |-> { "gbk", "latin-1" } ]

FileLatin == [ name |-> <<"l",".","c","s","v">>, readable |-> TRUE, rows |-> 2,
               regular |-> TRUE, decodes |-> { "latin-1" } ]

FileGbkBad == [ name |-> <<"k",".","c","s","v">>, readable |-> FALSE, rows |-> 0,
                regular |-> TRUE, decodes |-> { "gbk", "latin-1" } ]

ReadFiles == { FileA, FileB, FileGbk, FileLatin, FileGbkBad }

ScanEntries == { FileA, FileB, FileBad, FileUpper, FileHidden, FileDir }

\* The lists of input folders of SpecScan, by directory; 0 is a directory
\* that does not exist.
FolderLists == { <<1>>, <<1, 2>>, <<2, 1>>, <<1, 1>>, <<0>>, <<0, 1>>, <<1, 0>>, <<0, 2, 1>> }

RECURSIVE ListsUpTo(_, _)
\* Every list of at most n elements of S.
ListsUpTo(S, n) ==
    IF n = 0 THEN { << >> }
    ELSE LET shorter == ListsUpTo(S, n - 1)
         IN  shorter \cup { Append(l, x) : l \in shorter, x \in S }

\* What directory 1 may hold in SpecScan, and what directory 2 may.
EntryLists == ListsUpTo(ScanEntries, MaxEntries)

SecondDirs == { << FileXls >>, << FileA >> }

\* ------------------------------------------------------------------ state

VARIABLES
    tool,             \* which script runs
    max_sheets,       \* the configured MAX_SHEETS
    folders,          \* INPUT_FOLDERS, each with what the file system holds there
    phase,            \* position of the run
    found,            \* every file discovery matched, in discovery order
    all_files,        \* the files the run attempts (found, cut to the ceiling)
    i,                \* number of files the loop has attempted
    processed_files,  \* processed_files / successful_count / file_count
    error_files,      \* list of [path, msg] (multi, data)
    error_count,      \* error_count (easy)
    sheet_info,       \* list of [sheet_name, path, rows]
    total_rows,       \* total_rows
    all_dataframes,   \* merge_data's list of tables, as [path, rows] (data)
    merged_data,      \* rows of DataMerger.merged_data, as a list of paths
    writer,           \* the ExcelWriter: "none", "open", "closed"
    workbook,         \* the writer's book: sheet name -> [path, part]
    summary,          \* the summary sheet's content, or "none"
    disk,             \* what the output path holds
    log,              \* history: how each attempted file's turn ended
    encodings,        \* history: the encodings each turn tried, and the one it read with
    calls,            \* merge_data calls on the DataMerger after main's own
    \* the table functions
    fill_method,      \* the default fill_method of Series.pct_change in the installed pandas
    passed,           \* the table passed to the last call, as it was before the call
    arg_after,        \* the same table object after the call
    result_df,        \* the table the last call returned (the caller's next argument)
    last_call,        \* the function called last
    ncalls,           \* number of calls made
    \* the analysis runner
    missing_packages, \* the required packages that cannot be imported
    data_file,        \* whether EXCEL_FILE exists
    at,               \* position in run_comprehensive_analysis
    next_tool,        \* position of the loop over ANALYSIS_TOOLS
    results,          \* self.results: script -> [status]
    ran,              \* history: the scripts subprocess.run was called with
    success_count,    \* success_count
    summary_file,     \* the summary report: "none" or "written"
    retval            \* what run_comprehensive_analysis returned: "none", "True", "False"

merger_vars == << tool, max_sheets, folders, phase, found, all_files, i, processed_files,
                  error_files, error_count, sheet_info, total_rows, all_dataframes,
                  merged_data, writer, workbook, summary, disk, log, encodings, calls >>

frame_vars == << fill_method, passed, arg_after, result_df, last_call, ncalls >>

runner_vars == << missing_packages, data_file, at, next_tool, results, ran,
                  success_count, summary_file, retval >>

vars == << merger_vars, frame_vars, runner_vars >>

MultiSheet == tool \in { "multi", "easy" }

\* The tools that concatenate the tables they read into one table.
OneTable == tool \in { "data", "quick", "finance" }

\* The columns tool t adds to a table it has read: DataMerger the file name
\* and the file's path, quick_merge the file name and its folder,
\* finance_data_merger those and the time; the multi-sheet tools none.
AddedColumns(t) ==
    CASE t = "data"    -> << "filename", "filepath" >>
      [] t = "quick"   -> << "filename", "directory" >>
      [] t = "finance" -> << "filename", "directory", "processed_at" >>
      [] OTHER         -> << >>

\* The columns of the table tool t passes on: the file's own, then the added.
Layout(t) == << "original" >> \o AddedColumns(t)

\* A function with no argument: the book without sheets.
EmptyBook == [ n \in {} |-> 0 ]

\* The book b with sheet k set to v.
Put(b, k, v) == [ n \in (DOMAIN b) \cup {k} |-> IF n = k THEN v ELSE b[n] ]

\* The fields of a merger as its construction (or the start of the script)
\* leaves them.
Constructed ==
    /\ folders = << >>
    /\ phase = "init"
    /\ found = << >>
    /\ all_files = << >>
    /\ i = 0
    /\ processed_files = 0
    /\ error_files = << >>
    /\ error_count = 0
    /\ sheet_info = << >>
    /\ total_rows = 0
    /\ all_dataframes = << >>
    /\ merged_data = << >>
    /\ writer = "none"
    /\ workbook = EmptyBook
    /\ summary = << >>
    /\ disk = "prior"
    /\ log = << >>
    /\ encodings = << >>
    /\ calls = 0

\* No merger runs.
MergerIdle ==
    /\ tool = "none"
    /\ max_sheets = MAX_SHEETS
    /\ Constructed

\* An empty table without columns: pd.DataFrame().
NoTable == [ columns |-> << >>, rows |-> << >> ]

\* No table function is called.
FrameIdle ==
    /\ fill_method = "pad"
    /\ passed = NoTable
    /\ arg_after = NoTable
    /\ result_df = NoTable
    /\ last_call = "none"
    /\ ncalls = 0

\* ComprehensiveAnalysisRunner(): results is an empty dict; the runner is not
\* started.
RunnerNew ==
    /\ at = "start"
    /\ next_tool = 1
    /\ results = EmptyBook
    /\ ran = << >>
    /\ success_count = 0
    /\ summary_file = "none"
    /\ retval = "none"

\* No runner runs: every package is there, and so is the data file.
RunnerIdle ==
    /\ missing_packages = {}
    /\ data_file = TRUE
    /\ RunnerNew

Init ==
    /\ FrameIdle
    /\ RunnerIdle
    /\ tool \in { "multi", "easy", "data", "quick", "finance" }
    /\ max_sheets \in IF MultiSheet THEN { SmallCeiling, MAX_SHEETS }
                      ELSE { MAX_SHEETS }
    /\ Constructed

\* ------------------------------------------------------------- discovery

\* The elements of a list.
Range(s) == { s[k] : k \in 1..Len(s) }

\* glob's '*' + ext on a base name: the name ends with ext, compared
\* character by character (fnmatch on a POSIX system, where the configured
\* folders are), and a name that starts with a dot is hidden from '*'.
GlobMatches(name, ext) ==
    /\ Len(name) >= Len(ext)
    /\ SubSeq(name, Len(name) - Len(ext) + 1, Len(name)) = ext
    /\ name[1] # "."

Formats(t) == IF t \in { "data", "quick" } THEN DM_SUPPORTED_FORMATS ELSE SUPPORTED_FORMATS

\* The files among fs that tool t's scan matches.
Discoverable(t, fs) == { f \in fs : \E ext \in Range(Formats(t)) : GlobMatches(f.name, ext) }

\* glob.glob(os.path.join(folder, '**', '*' + ext), recursive=True): the
\* entries under the folder that the pattern matches, whatever kind of entry
\* they are, in the order the file system lists them; each with its place.
Glob(folder, ext) ==
    LET placed == [ k \in 1..Len(folder.entries) |->
                      [ name     |-> folder.entries[k].name,
                        readable |-> folder.entries[k].readable,
                        rows     |-> folder.entries[k].rows,
                        regular  |-> folder.entries[k].regular,
                        decodes  |-> folder.entries[k].decodes,
                        dir      |-> folder.dir,
                        pos      |-> k ] ]
        Hit(e) == GlobMatches(e.name, ext)
    IN  SelectSeq(placed, Hit)

RECURSIVE FolderFiles(_, _, _)
\* for ext in SUPPORTED_FORMATS: folder_files.extend(glob.glob(...)), from
\* the n-th extension on.
FolderFiles(folder, formats, n) ==
    IF n > Len(formats) THEN << >>
    ELSE Glob(folder, formats[n]) \o FolderFiles(folder, formats, n + 1)

\* A missing folder ends the scan: the folders after it are not looked at.
SkipMissingStop(rest) == << >>

\* if not os.path.exists(folder_path): continue -- the scan goes on with the
\* rest of the folders.
SkipMissing(rest) == rest

RECURSIVE ScanFolders(_, _, _)
\* The loop over the input folders, from the k-th on: the files of each
\* existing folder are appended to all_files.
ScanFolders(t, fs, k) ==
    IF k > Len(fs) THEN << >>
    ELSE IF ~fs[k].exists THEN SkipMissing(ScanFolders(t, fs, k + 1))
    ELSE FolderFiles(fs[k], Formats(t), 1) \o ScanFolders(t, fs, k + 1)

\* The ceiling left out: every discovered file is attempted.
CeilingNone(fs) == fs

\* all_files[:MAX_SHEETS] when there are more files than MAX_SHEETS.
Ceiling(fs) == IF Len(fs) > max_sheets THEN Prefix(fs, max_sheets) ELSE fs

\* scan_and_collect_files / the scan of merge_data_to_sheets / scan_folders
\* / the scan of merge_excel_csv_files and of merge_finance_data, and the
\* return when nothing was found.  cfg: the input folders of the run.
ScanWith(cfg) ==
    /\ LET fs == ScanFolders(tool, cfg, 1)
       IN  /\ folders' = cfg
           /\ found' = fs
           /\ all_files' = IF MultiSheet THEN Ceiling(fs) ELSE fs
           /\ phase' = IF Len(fs) = 0 THEN "nofiles"
                       ELSE IF MultiSheet THEN "scanned" ELSE "reading"
    /\ UNCHANGED << runner_vars, frame_vars, calls, encodings, tool, max_sheets, i, processed_files, error_files,
                    error_count, sheet_info, total_rows, all_dataframes,
                    merged_data, writer, workbook, summary, disk, log >>

\* Input folders that hold one file each: folder k holds l[k].
OneFilePerFolder(l) ==
    [ k \in 1..Len(l) |-> [ dir |-> k, exists |-> TRUE, entries |-> << l[k] >> ] ]

\* One input folder, with the given entries in its subfolders.
OneFolder(entries) == << [ dir |-> 1, exists |-> TRUE, entries |-> entries ] >>

Scan ==
    /\ phase = "init"
    /\ \E l \in ListsUpTo(Discoverable(tool, Files), MaxFiles) : ScanWith(OneFilePerFolder(l))

\* A scan of a folder that holds one file name more than MAX_SHEETS times, or
\* of folders with a few of NameFiles.
ScanMany ==
    /\ phase = "init"
    /\ \/ \E f \in Discoverable(tool, ManyFiles) :
             ScanWith(OneFolder(RepList(f, MAX_SHEETS + 1)))
       \/ \E l \in ListsUpTo(Discoverable(tool, NameFiles), MaxNameFiles) :
             ScanWith(OneFilePerFolder(l))

\* The file system of ScanTree: directory 1 holds up to MaxEntries of
\* ScanEntries, directory 2 one file; directory 0 does not exist.
Tree(one, two) == [ d \in 0..2 |-> IF d = 1 THEN one ELSE IF d = 2 THEN two ELSE << >> ]

\* INPUT_FOLDERS, as directories of the file system.
Resolve(dirs, tree) ==
    [ k \in 1..Len(dirs) |-> [ dir |-> dirs[k], exists |-> dirs[k] # 0,
                               entries |-> tree[dirs[k]] ] ]

\* A scan of configured folders of which some are missing, listed twice or
\* hold entries the patterns do not match.
ScanTree ==
    /\ phase = "init"
    /\ \E dirs \in FolderLists, one \in EntryLists, two \in SecondDirs :
          ScanWith(Resolve(dirs, Tree(one, two)))

\* A scan of folders whose CSV files are in different encodings.
ScanRead ==
    /\ phase = "init"
    /\ \E l \in ListsUpTo(Discoverable(tool, ReadFiles), MaxFiles) : ScanWith(OneFilePerFolder(l))

\* ----------------------------------------------------- multi-sheet tools

\* with pd.ExcelWriter(OUTPUT_FILE, engine='openpyxl') as writer: the output
\* path is opened for writing, which empties it, before any file is read.
OpenWriter ==
    /\ phase = "scanned"
    /\ \/ /\ writer' = "open"
          /\ disk' = "truncated"
          /\ phase' = "reading"
       \/ /\ phase' = "openfailed"
          /\ UNCHANGED << writer, disk >>
    /\ UNCHANGED << runner_vars, frame_vars, calls, encodings, tool, max_sheets, folders, found, all_files, i, processed_files,
                    error_files, error_count, sheet_info, total_rows,
                    all_dataframes, merged_data, workbook, summary, log >>

\* The fallback tried in the order GBK, UTF-8, Latin-1.
ReadCsvGbkFirst(f) ==
    IF "gbk" \in f.decodes THEN [ tried |-> << "gbk" >>, used |-> "gbk" ]
    ELSE IF "utf-8" \in f.decodes
         THEN [ tried |-> << "gbk", "utf-8" >>, used |-> "utf-8" ]
         ELSE [ tried |-> << "gbk", "utf-8", "latin-1" >>,
                used |-> IF "latin-1" \in f.decodes THEN "latin-1" ELSE "none" ]

\* try read_csv(encoding='utf-8') except UnicodeDecodeError: try 'gbk'
\* except UnicodeDecodeError: 'latin-1'.  tried: the encodings read_csv was
\* called with; used: the one that decoded the bytes, "none" when the last
\* call's UnicodeDecodeError left the blocks.
ReadCsv(f) ==
    IF "utf-8" \in f.decodes THEN [ tried |-> << "utf-8" >>, used |-> "utf-8" ]
    ELSE IF "gbk" \in f.decodes
         THEN [ tried |-> << "utf-8", "gbk" >>, used |-> "gbk" ]
         ELSE [ tried |-> << "utf-8", "gbk", "latin-1" >>,
                used |-> IF "latin-1" \in f.decodes THEN "latin-1" ELSE "none" ]

\* The read_csv calls of one turn; a workbook is read without an encoding.
Decoding(f) ==
    IF SuffixLower(f.name) = << ".", "c", "s", "v" >> THEN ReadCsv(f)
    ELSE [ tried |-> << >>, used |-> "none" ]

\* What reading file f gives tool t: the extension dispatch, then pandas,
\* which raises when no encoding decodes the bytes of a CSV file or when it
\* cannot parse the file.
ReadResult(t, f) ==
    LET file_ext == SuffixLower(f.name)
        known == IF t \in { "data", "quick" } THEN Range(DM_SUPPORTED_FORMATS)
                 ELSE Range(SUPPORTED_FORMATS)
    IN  IF file_ext \notin known THEN "unsupported"
        ELSE IF file_ext = << ".", "c", "s", "v" >> /\ ReadCsv(f).used = "none" THEN "error"
        ELSE IF f.readable THEN "ok" ELSE "error"

\* existing_names = [info['sheet_name'] for info in sheet_info]
ExistingNames(info) == { info[k].sheet_name : k \in 1..Len(info) }

\* A failure recorded by the reader and again by its caller.
RecordErrorTwice(path, msg) ==
    IF tool = "easy"
    THEN /\ error_count' = error_count + 2
         /\ UNCHANGED error_files
    ELSE /\ error_files' = error_files \o << [ path |-> path, msg |-> msg ],
                                            [ path |-> path, msg |-> msg ] >>
         /\ UNCHANGED error_count

\* The failure goes unrecorded: an except clause that only passes.
RecordErrorNone(path, msg) == UNCHANGED << error_files, error_count >>

\* The error record of a failed file: multi appends (file_path, msg) to
\* error_files, easy only counts.
RecordError(path, msg) ==
    IF tool = "easy"
    THEN /\ error_count' = error_count + 1
         /\ UNCHANGED error_files
    ELSE /\ error_files' = Append(error_files, [ path |-> path, msg |-> msg ])
         /\ UNCHANGED error_count

\* A file counted where its rows should be: total_rows += 1.
AddRowsOne(total, f) == total + 1

\* The rows counted for an accepted table: total_rows += len(df).
AddRows(total, f) == total + f.rows

\* The bookkeeping of a written sheet.
RecordSheet(path, f, sheet_name) ==
    /\ sheet_info' = Append(sheet_info,
                        [ sheet_name |-> sheet_name, path |-> path, rows |-> f.rows ])
    /\ total_rows' = AddRows(total_rows, f)
    /\ processed_files' = processed_files + 1

\* The block directly under the last data row.
BlockStartBelow(n) == n + 1

\* startrow=len(df)+2: the first row of the file-information block under a
\* table of n rows.
BlockStart(n) == n + 2

\* A sheet as to_excel(writer, sheet_name, index=False) and the block's
\* to_excel leave it: the header in row 0, the table's rows in the rows 1 to
\* len(df) under the table's columns, and the file-information block from its
\* start row on (multi writes it always, easy when INCLUDE_FILE_INFO).
WrittenSheet(t, path, f) ==
    [ path     |-> path,
      part     |-> "full",
      layout   |-> Layout(t),
      last_row |-> f.rows,
      block    |-> IF t = "easy" /\ ~INCLUDE_FILE_INFO THEN << >>
                   ELSE << BlockStart(f.rows) >> ]

\* A sheet whose writing raised after the sheet was created: in the data
\* cells or in the block, which is not there.
PartialSheet(t, path, f) ==
    [ path     |-> path,
      part     |-> "partial",
      layout   |-> Layout(t),
      last_row |-> f.rows,
      block    |-> << >> ]

\* How writing one sheet ends: written; failed before the sheet exists in the
\* book; failed after (in the data cells, or in the file-information block).
WriteOutcomes == { "ok", "fail_before", "fail_partial" }

\* One turn of the loop over the files: read_single_file, then the sheet,
\* its file-information block and the bookkeeping.
ProcessWith(outcomes) ==
    /\ MultiSheet
    /\ phase = "reading"
    /\ i < Len(all_files)
    /\ i' = i + 1
    /\ encodings' = Append(encodings, [ path |-> i + 1 ] @@ Decoding(all_files[i + 1]))
    /\ LET path == i + 1
           f == all_files[path]
           r == ReadResult(tool, f)
           sheet_name == Allocate(tool, f.name, ExistingNames(sheet_info))
       IN  \E w \in outcomes :
           /\ log' = Append(log, CASE r = "unsupported" -> "unsupported"
                                    [] r = "error" -> "read_error"
                                    [] w = "ok" -> "written"
                                    [] OTHER -> "write_failed")
           /\ CASE r = "unsupported" ->
                    UNCHANGED << processed_files, error_files, error_count,
                                 sheet_info, total_rows, workbook >>
               [] r = "error" ->
                    /\ RecordError(path, "read")
                    /\ UNCHANGED << processed_files, sheet_info, total_rows, workbook >>
               [] r = "ok" /\ w = "ok" ->
                    /\ workbook' = Put(workbook, sheet_name, WrittenSheet(tool, path, f))
                    /\ RecordSheet(path, f, sheet_name)
                    /\ UNCHANGED << error_files, error_count >>
               [] r = "ok" /\ w = "fail_before" ->
                    /\ RecordError(path, "write")
                    /\ UNCHANGED << processed_files, sheet_info, total_rows, workbook >>
               [] r = "ok" /\ w = "fail_partial" ->
                    /\ workbook' = Put(workbook, sheet_name, PartialSheet(tool, path, f))
                    /\ RecordError(path, "write")
                    /\ UNCHANGED << processed_files, sheet_info, total_rows >>
    /\ UNCHANGED << runner_vars, frame_vars, calls, tool, max_sheets, folders, phase, found, all_files, all_dataframes,
                    merged_data, writer, summary, disk >>

ProcessFile == ProcessWith(WriteOutcomes)

\* A turn of the loop in which the sheet write does not fail.
ProcessFileOk == ProcessWith({ "ok" })

\* file_path: the folder, the place under it and the base name, joined.
FilePath(f) == ToStr(f.dir) \o <<"/">> \o ToStr(f.pos) \o <<"/">> \o f.name

\* os.path.basename(file_path)
Basename(f) == f.name

\* The content of the summary sheet: the run totals, the sheet list and, in
\* multi only, a row [os.path.basename(file_path), error] for each entry of
\* error_files.
SummaryOf ==
    [ processed |-> processed_files,
      failed    |-> IF tool = "easy" THEN error_count ELSE Len(error_files),
      sheets    |-> Len(sheet_info),
      rows      |-> total_rows,
      listing   |-> sheet_info,
      errors    |-> IF tool = "easy" THEN << >>
                    ELSE [ k \in 1..Len(error_files) |->
                             << Basename(all_files[error_files[k].path]),
                                error_files[k].msg >> ] ]

\* After the loop: the summary sheet, then the with-block closes the writer,
\* which saves the book to the output path.  openpyxl refuses to save a book
\* without sheets.
Finish ==
    /\ MultiSheet
    /\ phase = "reading"
    /\ i = Len(all_files)
    /\ LET with_summary == ENABLE_SUMMARY /\ sheet_info # << >>
       IN  /\ summary' = IF with_summary THEN << SummaryOf >> ELSE << >>
           /\ writer' = "closed"
           /\ IF DOMAIN workbook = {} /\ ~with_summary
              THEN /\ phase' = "emptybook"
                   /\ disk' = "corrupt"
              ELSE \/ /\ phase' = "done"
                      /\ disk' = "complete"
                   \/ /\ phase' = "savefailed"
                      /\ disk' = "corrupt"
    /\ UNCHANGED << runner_vars, frame_vars, calls, encodings, tool, max_sheets, folders, found, all_files, i, processed_files,
                    error_files, error_count, sheet_info, total_rows,
                    all_dataframes, merged_data, workbook, log >>

\* --------------------------------------------------------------- DataMerger

\* One turn of the reading loop of the one-table tools.  DataMerger keeps a
\* table when it is not None and not empty; quick_merge and
\* finance_data_merger keep every table they read.
MergeStep ==
    /\ OneTable
    /\ phase = "reading"
    /\ i < Len(all_files)
    /\ i' = i + 1
    /\ encodings' = Append(encodings, [ path |-> i + 1 ] @@ Decoding(all_files[i + 1]))
    /\ LET path == i + 1
           f == all_files[path]
           r == ReadResult(tool, f)
       IN  CASE r = "error" ->
                  /\ error_files' = Append(error_files, [ path |-> path, msg |-> "read" ])
                  /\ log' = Append(log, "read_error")
                  /\ UNCHANGED << all_dataframes, processed_files >>
             [] r = "ok" /\ (f.rows > 0 \/ tool # "data") ->
                  /\ all_dataframes' = Append(all_dataframes,
                         [ path |-> path, rows |-> f.rows, layout |-> Layout(tool) ])
                  /\ processed_files' = processed_files + 1
                  /\ log' = Append(log, "merged")
                  /\ UNCHANGED error_files
             [] OTHER ->
                  /\ log' = Append(log, IF r = "ok" THEN "dropped_empty" ELSE "unsupported")
                  /\ UNCHANGED << all_dataframes, processed_files, error_files >>
    /\ UNCHANGED << runner_vars, frame_vars, calls, tool, max_sheets, folders, phase, found, all_files, error_count,
                    sheet_info, total_rows, merged_data, writer, workbook,
                    summary, disk >>

\* After the loop: pd.concat of the kept tables, if there is one.
MergeConcat ==
    /\ OneTable
    /\ phase = "reading"
    /\ i = Len(all_files)
    /\ merged_data' = IF all_dataframes # << >> THEN all_dataframes ELSE merged_data
    /\ phase' = "merged"
    /\ UNCHANGED << runner_vars, frame_vars, calls, encodings, tool, max_sheets, folders, found, all_files, i, processed_files,
                    error_files, error_count, sheet_info, total_rows,
                    all_dataframes, writer, workbook, summary, disk, log >>

\* merger.merge_data(file_paths) once more on the same DataMerger, with the
\* first n of the files found: all_dataframes is a new list, the fields of
\* the instance are as the calls before left them.
MergeAgain ==
    /\ tool = "data"
    /\ phase \in { "merged", "nodata", "done", "savefailed" }
    /\ calls < MaxCalls
    /\ calls' = calls + 1
    /\ \E n \in 0..Len(found) : all_files' = Prefix(found, n)
    /\ i' = 0
    /\ all_dataframes' = << >>
    /\ phase' = "reading"
    /\ UNCHANGED << runner_vars, frame_vars, encodings, tool, max_sheets, folders, found, processed_files,
                    error_files, error_count, sheet_info, total_rows, merged_data,
                    writer, workbook, summary, disk, log >>

\* save_merged_data, or the saving step of the two scripts: nothing is
\* written when there is no table; otherwise to_excel / to_csv writes
\* straight to the output path.
Save ==
    /\ OneTable
    /\ phase = "merged"
    /\ IF merged_data = << >>
       THEN /\ phase' = "nodata"
            /\ UNCHANGED disk
       ELSE \/ /\ phase' = "done"
               /\ disk' = "complete"
            \/ /\ phase' = "savefailed"
               /\ disk' \in { "prior", "corrupt" }
    /\ UNCHANGED << runner_vars, frame_vars, calls, encodings, tool, max_sheets, folders, found, all_files, i, processed_files,
                    error_files, error_count, sheet_info, total_rows,
                    all_dataframes, merged_data, writer, workbook, summary, log >>

\* -------------------------------------------------------- table functions

\* A cell of a table: a number num/den, or a missing value (None, NaN).
Num(n) == [ nan |-> FALSE, num |-> n, den |-> 1 ]

NaN == [ nan |-> TRUE, num |-> 0, den |-> 1 ]

\* The values the cells of an input table hold.
Cells == { Num(1), Num(2), NaN }

\* The column lists of the input tables.
ColumnLists == { << "close" >>, << "a" >>, << "a", "close" >>, << "close", "return" >> }

\* pd.DataFrame of the given rows: the k-th row gets the label k - 1.
MakeTable(cols, l) ==
    [ columns |-> cols,
      rows    |-> [ k \in 1..Len(l) |-> [ label |-> k - 1, cells |-> l[k] ] ] ]

\* The input tables: up to MaxRows rows of Cells under each column list.
Tables ==
    UNION { { MakeTable(cols, l) : l \in ListsUpTo([ 1..Len(cols) -> Cells ], MaxRows) } :
            cols \in ColumnLists }

\* A row holds a missing value.
HasMissing(row) == \E k \in 1..Len(row.cells) : row.cells[k].nan

\* Only the rows without any value are dropped: dropna(how='all').
DropnaAll(t) ==
    LET Keep(row) == \E k \in 1..Len(row.cells) : ~row.cells[k].nan
    IN  [ columns |-> t.columns, rows |-> SelectSeq(t.rows, Keep) ]

\* DataFrame.dropna(): axis 0, how 'any'; the rows kept keep their labels.
Dropna(t) ==
    LET Keep(row) == ~HasMissing(row)
    IN  [ columns |-> t.columns, rows |-> SelectSeq(t.rows, Keep) ]

\* data_loader.preprocess_data
preprocess_data(t) == Dropna(t)

\* The position of column name in t, 0 when t has no such column.
ColumnPos(t, name) ==
    IF \E k \in 1..Len(t.columns) : t.columns[k] = name
    THEN CHOOSE k \in 1..Len(t.columns) : t.columns[k] = name
    ELSE 0

\* df[name], as the list of its values.
Column(t, name) == [ k \in 1..Len(t.rows) |-> t.rows[k].cells[ColumnPos(t, name)] ]

\* Series.ffill: a missing value takes the last value before it, if any.
Pad(x) ==
    [ k \in 1..Len(x) |->
        LET valid == { j \in 1..k : ~x[j].nan }
        IN  IF valid = {} THEN NaN
            ELSE x[CHOOSE j \in valid : \A h \in valid : h <= j] ]

\* The difference to the row before, not the relative change: Series.diff.
PctChangeDiff(x, fill) ==
    LET y == IF fill = "pad" THEN Pad(x) ELSE x
    IN  [ k \in 1..Len(x) |->
            IF k = 1 \/ y[k].nan \/ y[k - 1].nan THEN NaN
            ELSE [ nan |-> FALSE,
                   num |-> y[k].num * y[k - 1].den - y[k - 1].num * y[k].den,
                   den |-> y[k].den * y[k - 1].den ] ]

\* Series.pct_change(): the values filled as fill_method says, then
\* y[k] / y[k-1] - 1; the first entry is missing.
PctChange(x, fill) ==
    LET y == IF fill = "pad" THEN Pad(x) ELSE x
    IN  [ k \in 1..Len(x) |->
            IF k = 1 \/ y[k].nan \/ y[k - 1].nan THEN NaN
            ELSE [ nan |-> FALSE,
                   num |-> y[k].num * y[k - 1].den - y[k - 1].num * y[k].den,
                   den |-> y[k - 1].num * y[k].den ] ]

\* df[name] = x: the column is replaced where it is, or added as the last.
SetColumn(t, name, x) ==
    LET pos == ColumnPos(t, name)
    IN  IF pos = 0
        THEN [ columns |-> Append(t.columns, name),
               rows    |-> [ k \in 1..Len(t.rows) |->
                               [ label |-> t.rows[k].label,
                                 cells |-> Append(t.rows[k].cells, x[k]) ] ] ]
        ELSE [ columns |-> t.columns,
               rows    |-> [ k \in 1..Len(t.rows) |->
                               [ label |-> t.rows[k].label,
                                 cells |-> [ t.rows[k].cells EXCEPT ![pos] = x[k] ] ] ] ]

\* feature_engineering.add_features
add_features(t) ==
    IF ColumnPos(t, "close") # 0
    THEN SetColumn(t, "return", PctChange(Column(t, "close"), fill_method))
    ELSE t

\* A caller passes the table it holds to preprocess_data and keeps the result;
\* dropna returns a new table and leaves its argument alone.
CallPreprocess ==
    /\ ncalls < MaxOps
    /\ passed' = result_df
    /\ arg_after' = result_df
    /\ result_df' = preprocess_data(result_df)
    /\ last_call' = "preprocess_data"
    /\ ncalls' = ncalls + 1
    /\ UNCHANGED << fill_method, merger_vars, runner_vars >>

\* A caller passes the table it holds to add_features and keeps the result;
\* the column is set on the argument itself, which is what is returned.
CallAddFeatures ==
    /\ ncalls < MaxOps
    /\ passed' = result_df
    /\ arg_after' = add_features(result_df)
    /\ result_df' = add_features(result_df)
    /\ last_call' = "add_features"
    /\ ncalls' = ncalls + 1
    /\ UNCHANGED << fill_method, merger_vars, runner_vars >>

\* ------------------------------------------------------- analysis runner

\* The scripts of ANALYSIS_TOOLS, in the order of the list.
ANALYSIS_TOOLS == << "advanced_data_analyzer.py", "interactive_visualization.py",
                     "pdf_report_generator.py" >>

\* The packages check_dependencies imports.
required_packages == { "pandas", "numpy", "scipy", "sklearn", "plotly", "matplotlib",
                       "seaborn", "reportlab" }

\* How run_analysis_tool ends: the script exits with 0, exits with another
\* code, or subprocess.run raises.
ToolOutcomes == { "success", "failed", "error" }

\* 1. check_dependencies: return False when a package is missing.
CheckDependencies ==
    /\ at = "start"
    /\ IF missing_packages # {}
       THEN /\ retval' = "False"
            /\ at' = "returned"
       ELSE /\ at' = "deps_ok"
            /\ UNCHANGED retval
    /\ UNCHANGED << missing_packages, data_file, next_tool, results, ran, success_count,
                    summary_file, merger_vars, frame_vars >>

\* 2. check_data_file: return False when EXCEL_FILE does not exist.
CheckDataFile ==
    /\ at = "deps_ok"
    /\ IF ~data_file
       THEN /\ retval' = "False"
            /\ at' = "returned"
       ELSE /\ at' = "tools"
            /\ UNCHANGED retval
    /\ UNCHANGED << missing_packages, data_file, next_tool, results, ran, success_count,
                    summary_file, merger_vars, frame_vars >>

\* The loop left at the first tool that does not succeed.
AdvanceStop(k, ok) == IF ok THEN k + 1 ELSE Len(ANALYSIS_TOOLS) + 1

\* for tool_script, tool_name in ANALYSIS_TOOLS: the loop goes on to the next
\* tool whatever run_analysis_tool returned.
Advance(k, ok) == k + 1

\* 3. One turn of the loop: run_analysis_tool calls subprocess.run on the
\* script, stores the entry of the script in self.results and returns whether
\* the script exited with 0.
RunAnalysisTool ==
    /\ at = "tools"
    /\ next_tool <= Len(ANALYSIS_TOOLS)
    /\ \E outcome \in ToolOutcomes :
          LET tool_script == ANALYSIS_TOOLS[next_tool]
          IN  /\ ran' = Append(ran, tool_script)
              /\ results' = Put(results, tool_script, [ status |-> outcome ])
              /\ success_count' = IF outcome = "success" THEN success_count + 1
                                   ELSE success_count
              /\ next_tool' = Advance(next_tool, outcome = "success")
    /\ UNCHANGED << missing_packages, data_file, at, summary_file, retval,
                    merger_vars, frame_vars >>

\* 4. generate_summary_report after the loop: the report is written, or
\* opening or writing the file raises and the exception leaves
\* run_comprehensive_analysis.
GenerateSummaryReport ==
    /\ at = "tools"
    /\ next_tool > Len(ANALYSIS_TOOLS)
    /\ \/ /\ summary_file' = "written"
          /\ at' = "reported"
       \/ /\ at' = "raised"
          /\ UNCHANGED summary_file
    /\ UNCHANGED << missing_packages, data_file, next_tool, results, ran, success_count,
                    retval, merger_vars, frame_vars >>

\* 5, 6. The final messages, open_results, and
\* return success_count == len(ANALYSIS_TOOLS).
ReturnResult ==
    /\ at = "reported"
    /\ retval' = IF success_count = Len(ANALYSIS_TOOLS) THEN "True" ELSE "False"
    /\ at' = "returned"
    /\ UNCHANGED << missing_packages, data_file, next_tool, results, ran, success_count,
                    summary_file, merger_vars, frame_vars >>

\* ------------------------------------------------------------ specification

Next ==
    \/ Scan
    \/ OpenWriter
    \/ ProcessFile
    \/ Finish
    \/ MergeStep
    \/ MergeConcat
    \/ Save

Spec == Init /\ [][Next]_vars

\* The multi-sheet tools with the shipped ceiling, on discoveries of up to
\* MAX_SHEETS + 1 files, in runs where no sheet write fails.
InitNames == Init /\ MultiSheet /\ max_sheets = MAX_SHEETS

NextNames ==
    \/ ScanMany
    \/ OpenWriter
    \/ ProcessFileOk
    \/ Finish

SpecNames == InitNames /\ [][NextNames]_vars

\* Every tool on input folders of which some are missing or listed twice, in
\* runs where no sheet write fails.
NextScan ==
    \/ ScanTree
    \/ OpenWriter
    \/ ProcessFileOk
    \/ Finish
    \/ MergeStep
    \/ MergeConcat
    \/ Save

SpecScan == Init /\ [][NextScan]_vars

\* Every tool on CSV files of different encodings, in runs where no sheet
\* write fails; the DataMerger may be given further merge_data calls.
NextRead ==
    \/ ScanRead
    \/ OpenWriter
    \/ ProcessFileOk
    \/ Finish
    \/ MergeStep
    \/ MergeConcat
    \/ Save
    \/ MergeAgain

SpecRead == Init /\ [][NextRead]_vars

\* The table functions, called on a table a caller has loaded: pandas fills
\* missing values before pct_change up to version 2 and does not from 3 on.
InitFrame ==
    /\ MergerIdle
    /\ RunnerIdle
    /\ fill_method \in { "pad", "none" }
    /\ result_df \in Tables
    /\ passed = NoTable
    /\ arg_after = NoTable
    /\ last_call = "none"
    /\ ncalls = 0

NextFrame ==
    \/ CallPreprocess
    \/ CallAddFeatures

SpecFrame == InitFrame /\ [][NextFrame]_vars

\* run_comprehensive_analysis of a new runner, in an environment where any
\* of the required packages may be missing and the data file may be.
InitRunner ==
    /\ MergerIdle
    /\ FrameIdle
    /\ missing_packages \in SUBSET required_packages
    /\ data_file \in BOOLEAN
    /\ RunnerNew

NextRunner ==
    \/ CheckDependencies
    \/ CheckDataFile
    \/ RunAnalysisTool
    \/ GenerateSummaryReport
    \/ ReturnResult

SpecRunner == InitRunner /\ [][NextRunner]_vars

\* --------------------------------------------------------- how a run ends

\* The run ended with an exception that nothing catches: the writer could not
\* be opened, or closing it (the save) raised; the traceback ends the
\* process with status 1.
Raised ==
    \/ phase \in { "openfailed", "emptybook" }
    \/ MultiSheet /\ phase = "savefailed"

\* The exit status of the script.
ExitStatus == IF Raised THEN 1 ELSE 0

\* What the run's function gives back when it returns: merge_finance_data
\* the merged table after a save, None otherwise; every other one None.
Returned == IF tool = "finance" /\ phase = "done" THEN "merged_data" ELSE "None"

\* ------------------------------------------------------ claim vocabulary

\* The failed-file count a run reports: len(error_files), or error_count.
Failed == IF tool = "easy" THEN error_count ELSE Len(error_files)

\* The loop over the files has ended (the run may have ended too).
LoopOver ==
    \/ phase = "reading" /\ i = Len(all_files)
    \/ phase \in { "done", "emptybook", "savefailed", "merged", "nodata" }

\* The run has ended.
Ended == phase \in { "nofiles", "openfailed", "emptybook", "savefailed", "done", "nodata" }

\* Positions of the attempted files whose turn ended with outcome o.
Turns(o) == { k \in 1..Len(log) : log[k] = o }

RECURSIVE SumRows(_, _)
\* The rows of the files of fs at the positions ks.
SumRows(fs, ks) ==
    IF ks = {} THEN 0
    ELSE LET k == CHOOSE x \in ks : TRUE
         IN  fs[k].rows + SumRows(fs, ks \ {k})

RECURSIVE SumBlocks(_)
\* len() of a concatenation of tables.
SumBlocks(blocks) ==
    IF blocks = << >> THEN 0 ELSE Head(blocks).rows + SumBlocks(Tail(blocks))

\* The run's total-rows figure: total_rows, or len(merged_data).
TotalRows == IF tool = "data" THEN SumBlocks(merged_data) ELSE total_rows

\* The sheets of the book that hold a file's table.
DataSheets == DOMAIN workbook

ValidSheetName(n) ==
    /\ Len(n) >= 1
    /\ Len(n) <= 31
    /\ \A k \in 1..Len(n) : n[k] \notin { "\\", "/", "?", "*", "[", "]", ":" }

\* ------------------------------------------------------------------ claims

C2_SheetNameValid ==
    \A n \in DataSheets \cup ExistingNames(sheet_info) : ValidSheetName(n)

\* C2 witness: a 27-character stem has collided more than 99 times, so that
\* its sheet name carries a three-digit suffix.
C2_Witness ==
    /\ tool = "multi"
    /\ Len(sheet_info) > 100
    /\ sheet_info[101].sheet_name = Rep("a", 27) \o << "_", "1", "0", "0" >>

\* C10: a multi-sheet run attempts exactly the first max_sheets discovered
\* files, in discovery order; the files past the ceiling are no errors; the
\* book never holds more than max_sheets data sheets.
C10_Ceiling ==
    (MultiSheet /\ phase # "init") =>
        /\ Len(all_files) = (IF Len(found) > max_sheets THEN max_sheets ELSE Len(found))
        /\ \A k \in 1..Len(all_files) : all_files[k] = found[k]
        /\ i <= Len(all_files)
        /\ Len(log) = i
        /\ Failed = Cardinality(Turns("read_error") \cup Turns("write_failed"))
        /\ \A k \in 1..Len(error_files) : error_files[k].path <= Len(all_files)
        /\ Cardinality(DataSheets) <= max_sheets
        /\ Len(sheet_info) <= max_sheets

\* C10 witness: discovery found more files than the ceiling and the run ended
\* after attempting max_sheets of them, one of which failed.
C10_Witness ==
    /\ MultiSheet
    /\ Len(found) > max_sheets
    /\ phase = "done"
    /\ i = max_sheets
    /\ Failed = 1

\* The attempted files pandas cannot read, and those it can.
ReadErrors == { k \in 1..Len(all_files) : ReadResult(tool, all_files[k]) = "error" }

ReadOk == { k \in 1..Len(all_files) : ReadResult(tool, all_files[k]) = "ok" }

\* The inputs of the partial-failure case: every discovered file is attempted,
\* one of them cannot be read and the others can.
OneUnreadable ==
    /\ MultiSheet
    /\ Len(found) <= max_sheets
    /\ Cardinality(ReadErrors) = 1
    /\ Cardinality(ReadOk) = Len(all_files) - 1

\* What the partial-failure case promises once the loop is over.
Contained ==
    /\ phase # "emptybook"
    /\ Failed = 1
    /\ processed_files = Len(all_files) - 1
    /\ Cardinality(DataSheets) = Len(all_files) - 1
    /\ \A n \in DataSheets : workbook[n].part = "full"
    /\ phase = "done" => disk = "complete" /\ writer = "closed"

\* C3 as stated: with exactly one unreadable file among the N discovered, the
\* run is not aborted, counts 1 failed and N-1 processed files, and the book
\* holds the N-1 data sheets.  (A failure of the final save is left aside.)
C3_Original ==
    (OneUnreadable /\ LoopOver /\ phase # "savefailed") => Contained

\* C3 as amended: the same, for N >= 2 and when no sheet write fails.
C3_PartialFailure ==
    ( /\ OneUnreadable
      /\ LoopOver
      /\ phase # "savefailed"
      /\ Len(all_files) >= 2
      /\ Turns("write_failed") = {} ) => Contained

\* C3 witness: a run over three files, the second unreadable, has ended and
\* saved the two other files' sheets.
C3_Witness ==
    /\ OneUnreadable
    /\ Len(all_files) = 3
    /\ log = << "written", "read_error", "written" >>
    /\ phase = "done"

\* C4: when discovery finds no file, or no attempted file can be read, the run
\* ends in failure, the workbook writer was never invoked and the output path
\* holds what it held before the run.
C4_FatalEmptyRun ==
    ( /\ Ended
      /\ \/ Len(found) = 0
         \/ \A k \in 1..Len(all_files) : ReadResult(tool, all_files[k]) = "error" )
    => ( /\ phase # "done"
         /\ writer = "none"
         /\ disk = "prior" )

\* C5: after every turn of the loop and at the end of the run, processed plus
\* failed files are the files attempted so far, which are at most the files
\* discovered.
C5_FileAccounting ==
    /\ processed_files + Failed = i
    /\ i <= Len(found)

\* The file at position k contributed its table to the output.
Contributed(k) ==
    \/ \E a \in 1..Len(sheet_info) : sheet_info[a].path = k
    \/ \E a \in 1..Len(merged_data) : merged_data[a].path = k

\* The file at position k is in the run's error list.
Recorded(k) == \E a \in 1..Len(error_files) : error_files[a].path = k

\* C6: when a run completes, every attempted file contributed its table or
\* is in the error list with its path and message, and the reported counts
\* are those of the contributing and of the failed files.
C6_NoSilentDrop ==
    phase = "done" =>
        /\ \A k \in 1..Len(all_files) : Contributed(k) \/ Recorded(k)
        /\ processed_files = Cardinality({ k \in 1..Len(all_files) : Contributed(k) })
        /\ Failed = Cardinality({ k \in 1..Len(all_files) : ~Contributed(k) })

\* The run is past its reading loop (and, in DataMerger, past the concat).
Accounted ==
    \/ MultiSheet /\ LoopOver
    \/ tool = "data" /\ phase \in { "merged", "nodata", "done", "savefailed" }

\* The turns that read their file's table.
ReadTurns ==
    Turns("written") \cup Turns("write_failed") \cup Turns("merged") \cup Turns("dropped_empty")

C8_NoWriteBeforeReads ==
    (writer # "none" \/ disk # "prior") => i = Len(all_files)

\* C9: when writing the workbook fails, in a sheet or at the final save, the
\* output path holds after the run exactly what it held before it.
C9_AtomicOutput ==
    ( /\ Ended
      /\ \/ phase \in { "openfailed", "savefailed" }
         \/ Turns("write_failed") # {} )
    => disk = "prior"

\* The turns in which the file failed, at the read or at the sheet write.
FailedTurns == Turns("read_error") \cup Turns("write_failed")

\* C11: when a multi-sheet run with the summary option completes with at
\* least one processed file, the book holds exactly one summary sheet,
\* written after the data sheets, of which there are at most max_sheets; the
\* summary carries the run totals, the sheet-to-source list and one error
\* row, path and message, for every failed file.
C11_SummarySheet ==
    (MultiSheet /\ ENABLE_SUMMARY /\ phase = "done" /\ processed_files > 0) =>
        /\ Len(summary) = 1
        /\ Cardinality(DataSheets) <= max_sheets
        /\ summary[1].processed = processed_files
        /\ summary[1].failed = Cardinality(FailedTurns)
        /\ summary[1].rows = total_rows
        /\ summary[1].listing = sheet_info
        /\ Len(summary[1].errors) = Cardinality(FailedTurns)
        /\ \A k \in FailedTurns :
             \E a \in 1..Len(summary[1].errors) :
                 summary[1].errors[a][1] = FilePath(all_files[k])

\* Where a discovered file lies in the file system.
Place(f) == << f.dir, f.pos >>

\* C12: each file is attempted exactly once in a run: the loop takes one turn
\* per attempted position and never returns to one, and no file of the file
\* system is at two positions of the attempted list, also when a folder is
\* configured twice.
C12_AttemptedOnce ==
    /\ Len(log) = i
    /\ i <= Len(all_files)
    /\ \A a, b \in 1..Len(all_files) :
           a # b => Place(all_files[a]) # Place(all_files[b])

\* C13: a failure while reading a file is caught in that file's turn and
\* becomes an error record: the loop is not left before every file of the
\* attempted list had its turn, and every failed read is recorded (counted,
\* in easy_multi_sheet_merger).
C13_ReadFailureCaught ==
    /\ Len(log) = i
    /\ i < Len(all_files) => phase \in { "scanned", "openfailed", "reading" }
    /\ IF tool = "easy"
       THEN error_count >= Cardinality(Turns("read_error"))
       ELSE \A k \in Turns("read_error") :
                Cardinality({ a \in 1..Len(error_files) : error_files[a].path = k }) = 1

\* C13 witness: quick_merge has ended a run in which the first file could not
\* be read and the second was read and merged.
C13_Witness ==
    /\ tool = "quick"
    /\ log = << "read_error", "merged" >>
    /\ Len(error_files) = 1
    /\ phase = "done"

\* The tool recognizes the name's extension, compared without regard to case.
Recognized(t, name) == SuffixLower(name) \in Range(Formats(t))

\* The configured folders that exist.
ExistingRoots == { r \in 1..Len(folders) : folders[r].exists }

\* The places of the regular files under the existing folders whose
\* extension the tool recognizes.
RecognizedPlaces ==
    UNION { { << folders[r].dir, p >> :
                p \in { q \in 1..Len(folders[r].entries) :
                          /\ folders[r].entries[q].regular
                          /\ Recognized(tool, folders[r].entries[q].name) } } :
            r \in ExistingRoots }

\* C14: the discovered list holds every regular file under an existing folder
\* whose extension is, without regard to case, a recognized one, and nothing
\* else.
C14_CaseInsensitive ==
    phase # "init" => { Place(found[k]) : k \in 1..Len(found) } = RecognizedPlaces

\* No directory is configured twice.
DistinctRoots ==
    \A a, b \in 1..Len(folders) : a # b => folders[a].dir # folders[b].dir

\* The position, among the configured folders, of the folder f was found in.
RootOf(f) == CHOOSE r \in 1..Len(folders) : folders[r].dir = f.dir

\* C15: the discovered list is ordered by the folders' input order and, within
\* one folder, by the order the file system lists the files in, whatever
\* their extensions.
C15_DiscoveryOrder ==
    (phase # "init" /\ DistinctRoots) =>
        \A a, b \in 1..Len(found) :
            a < b => \/ RootOf(found[a]) < RootOf(found[b])
                     \/ /\ RootOf(found[a]) = RootOf(found[b])
                        /\ found[a].pos < found[b].pos

\* The entries of folder r that one of the tool's patterns matches.
Matched(r) ==
    { p \in 1..Len(folders[r].entries) :
        \E ext \in Range(Formats(tool)) : GlobMatches(folders[r].entries[p].name, ext) }

\* C16: a configured folder that does not exist is skipped and ends nothing:
\* the discovered list holds the matched files of the existing folders, each
\* once for every time its folder is configured, and nothing else; when that
\* is no file the run returns without an exception, otherwise it goes on.
C16_MissingRootSkipped ==
    phase # "init" =>
        /\ \A r \in ExistingRoots : \A p \in Matched(r) :
               Cardinality({ k \in 1..Len(found) : Place(found[k]) = << folders[r].dir, p >> })
                   = Cardinality({ q \in ExistingRoots : folders[q].dir = folders[r].dir })
        /\ \A k \in 1..Len(found) :
               \E r \in ExistingRoots : /\ folders[r].dir = found[k].dir
                                        /\ found[k].pos \in Matched(r)
        /\ Len(found) = 0 <=> phase = "nofiles"
        /\ phase = "nofiles" => ~Raised

\* C16 witness: the first configured folder does not exist, the files of a
\* later one were discovered and the run has ended with a saved output.
C16_Witness ==
    /\ Len(folders) >= 2
    /\ ~folders[1].exists
    /\ Len(found) >= 1
    /\ phase = "done"

\* C18: every table that was read carries, after the file's own columns, two
\* added columns: the source file name and the source directory.
C18_ProvenanceColumns ==
    /\ \A n \in DataSheets :
           workbook[n].layout = << "original", "filename", "directory" >>
    /\ \A k \in 1..Len(all_dataframes) :
           all_dataframes[k].layout = << "original", "filename", "directory" >>

\* The run signals a failure: by a non-zero exit status, or by the None that
\* merge_finance_data returns in place of the merged table.
FailureIndicated == ExitStatus # 0 \/ (tool = "finance" /\ Returned = "None")

\* C19: a run signals a failure exactly when no file was discovered, no file
\* was read, or the write failed; a run that wrote at least one file's table
\* signals success, whatever other files failed.
C19_ExitBehaviour ==
    Ended =>
        ( FailureIndicated <=> \/ Len(found) = 0
                               \/ ReadTurns = {}
                               \/ phase \in { "openfailed", "savefailed" } )

\* The names given to the sheets recorded before the a-th.
Earlier(a) == { sheet_info[k].sheet_name : k \in 1..(a - 1) }

\* The cleaned name of the file of the a-th recorded sheet.
BaseOf(a) ==
    LET stem == ReplaceInvalid(Stem(all_files[sheet_info[a].path].name))
    IN  IF Len(stem) > 31 THEN Prefix(stem, 28) \o << ".", ".", "." >> ELSE stem

\* base, cut to its first c characters, with the suffix _N.
Suffixed(base, c, N) == Prefix(base, c) \o << "_" >> \o ToStr(N)

\* How many characters of a base the tool keeps before a suffix: 27 of a
\* base longer than 27 (multi), 25 (easy).
Kept(t, base) ==
    IF t = "multi" THEN (IF Len(base) > 27 THEN 27 ELSE Len(base))
    ELSE (IF Len(base) > 25 THEN 25 ELSE Len(base))

SanitizedStem(a) == ReplaceInvalid(Stem(all_files[sheet_info[a].path].name))

\* C21: a file whose sanitized stem is longer than 31 characters and whose
\* name does not collide gets exactly the first 28 characters of the sanitized
\* stem followed by "...", 31 characters in all; a sanitized stem of at most 31
\* characters that does not collide is the sheet name as it is.  (Stated of
\* the sheet recorded last.)
C21_Truncation ==
    LET a == Len(sheet_info)
    IN  a > 0 =>
          LET stem == SanitizedStem(a)
              sheet_name == sheet_info[a].sheet_name
          IN  IF Len(stem) > 31
              THEN LET dotted == SubSeq(stem, 1, 28) \o << ".", ".", "." >>
                   IN  dotted \notin Earlier(a) =>
                          /\ sheet_name = dotted
                          /\ Len(sheet_name) = 31
              ELSE stem \notin Earlier(a) => sheet_name = stem

\* C21 witness: the multi-sheet merger has given sheets to a file with a
\* 32-character stem, cut to 28 characters and three dots, and to a file with
\* a 31-character stem, kept whole.
C21_Witness ==
    /\ tool = "multi"
    /\ Len(sheet_info) = 2
    /\ Len(SanitizedStem(1)) = 32
    /\ sheet_info[1].sheet_name = Rep("c", 28) \o << ".", ".", "." >>
    /\ Len(SanitizedStem(2)) = 31
    /\ sheet_info[2].sheet_name = Rep("b", 31)

\* The rows of table t that hold no missing value, by position.
CompleteRows(t) == { j \in 1..Len(t.rows) : ~HasMissing(t.rows[j]) }

\* C22: the table preprocess_data returns has no missing value; its rows are
\* exactly the rows of the passed table that hold no missing value, each once
\* and in the order they had; its columns are those of the passed table.
C22_NoMissingValues ==
    last_call = "preprocess_data" =>
        /\ result_df.columns = passed.columns
        /\ \A k \in 1..Len(result_df.rows) : ~HasMissing(result_df.rows[k])
        /\ Len(result_df.rows) = Cardinality(CompleteRows(passed))
        /\ \A j \in CompleteRows(passed) :
               \E k \in 1..Len(result_df.rows) : result_df.rows[k] = passed.rows[j]
        /\ \A a, b \in 1..Len(result_df.rows) :
               a < b => \E ja, jb \in 1..Len(passed.rows) :
                           /\ ja < jb
                           /\ passed.rows[ja] = result_df.rows[a]
                           /\ passed.rows[jb] = result_df.rows[b]

\* C22 witness: preprocess_data was called on the table of its test, one
\* column with a missing value between two numbers, and returned the first
\* and the third row.
C22_Witness ==
    /\ last_call = "preprocess_data"
    /\ passed = MakeTable(<< "a" >>, << << Num(1) >>, << NaN >>, << Num(2) >> >>)
    /\ Len(result_df.rows) = 2
    /\ result_df.rows[2].label = 2

\* The relative change from cell p to cell c: value r is c / p - 1.
IsChange(r, c, p) ==
    /\ ~r.nan
    /\ r.num * (p.num * c.den) = (c.num * p.den - p.num * c.den) * r.den

\* The columns at the positions ps hold in table t what they held in table u,
\* under the same names, and the rows have the labels they had.
SameColumns(t, u, ps) ==
    /\ Len(t.rows) = Len(u.rows)
    /\ \A k \in 1..Len(u.rows) : t.rows[k].label = u.rows[k].label
    /\ \A c \in ps :
           /\ c <= Len(t.columns)
           /\ t.columns[c] = u.columns[c]
           /\ \A k \in 1..Len(u.rows) : t.rows[k].cells[c] = u.rows[k].cells[c]

\* C23 as stated: add_features adds a column 'return' to a table with a column
\* 'close', its first entry missing and entry i equal to close[i]/close[i-1] - 1
\* (missing when one of the two is), leaves every column the table had as it
\* was, and returns a table without 'close' as it is.
C23_Original ==
    last_call = "add_features" =>
        IF ColumnPos(passed, "close") = 0 THEN result_df = passed
        ELSE LET close == Column(passed, "close")
                 return == Column(result_df, "return")
             IN  /\ ColumnPos(result_df, "return") # 0
                 /\ SameColumns(result_df, passed, 1..Len(passed.columns))
                 /\ \A k \in 1..Len(close) :
                        IF k = 1 \/ close[k].nan \/ close[k - 1].nan
                        THEN return[k].nan
                        ELSE IsChange(return[k], close[k], close[k - 1])

\* C23 as amended: the column 'return' is set (added as the last column, or
\* replaced where the table had one), its first entry missing and entry i
\* equal to close[i]/close[i-1] - 1 wherever close[i] and close[i-1] are both
\* present; every other column the table had is left as it was; a table
\* without 'close' is returned as it is.
C23_AddFeatures ==
    last_call = "add_features" =>
        IF ColumnPos(passed, "close") = 0 THEN result_df = passed
        ELSE LET close == Column(passed, "close")
                 return == Column(result_df, "return")
                 had == ColumnPos(passed, "return")
             IN  /\ ColumnPos(result_df, "return") = (IF had = 0 THEN Len(passed.columns) + 1 ELSE had)
                 /\ Len(result_df.columns) = (IF had = 0 THEN Len(passed.columns) + 1
                                               ELSE Len(passed.columns))
                 /\ SameColumns(result_df, passed, (1..Len(passed.columns)) \ { had })
                 /\ Len(close) >= 1 => return[1].nan
                 /\ \A k \in 2..Len(close) :
                        (~close[k].nan /\ ~close[k - 1].nan) =>
                            IsChange(return[k], close[k], close[k - 1])

\* C23 witness: add_features was called on a table that had a 'return' column
\* of its own next to the closes 2, 1; the returned table holds the closes as
\* they were and the returns missing, -1/2.
C23_Witness ==
    /\ last_call = "add_features"
    /\ passed = MakeTable(<< "close", "return" >>,
                          << [ c \in 1..2 |-> Num(2) ],
                             [ c \in 1..2 |-> IF c = 1 THEN Num(1) ELSE Num(2) ] >>)
    /\ Column(result_df, "close") = << Num(2), Num(1) >>
    /\ Column(result_df, "return")[1].nan
    /\ Column(result_df, "return")[2] = [ nan |-> FALSE, num |-> -1, den |-> 2 ]

\* The file is a CSV file by its extension.
IsCsv(f) == SuffixLower(f.name) = << ".", "c", "s", "v" >>

\* C25: for a CSV file the encodings are tried in the order UTF-8, GBK,
\* Latin-1: the encodings a turn tried are the first ones of that list, each
\* but the last of them raised a decode error, the turn stopped at the first
\* that raised none, and that one is the encoding the table was read with.
C25_EncodingFallback ==
    \A k \in 1..Len(encodings) :
        LET f == found[encodings[k].path]
            tried == encodings[k].tried
        IN  IF IsCsv(f)
            THEN /\ Len(tried) \in 1..3
                 /\ \A j \in 1..Len(tried) : tried[j] = << "utf-8", "gbk", "latin-1" >>[j]
                 /\ \A j \in 1..(Len(tried) - 1) : tried[j] \notin f.decodes
                 /\ Len(tried) < 3 => tried[Len(tried)] \in f.decodes
                 /\ encodings[k].used # "none" =>
                        /\ encodings[k].used = tried[Len(tried)]
                        /\ encodings[k].used \in f.decodes
                 /\ (f.readable /\ f.decodes # {}) => encodings[k].used # "none"
            ELSE tried = << >>

\* C25 witness: the multi-sheet merger has written the sheets of a GBK file,
\* read at the second try, and of a file that only Latin-1 decodes, read at
\* the third.
C25_Witness ==
    /\ tool = "multi"
    /\ log = << "written", "written" >>
    /\ encodings = << [ path |-> 1, tried |-> << "utf-8", "gbk" >>, used |-> "gbk" ],
                      [ path |-> 2, tried |-> << "utf-8", "gbk", "latin-1" >>, used |-> "latin-1" ] >>

C27_BookkeepingConsistent ==
    MultiSheet =>
        /\ DataSheets = ExistingNames(sheet_info)
        /\ Cardinality(DataSheets) = Len(sheet_info)
        /\ processed_files = Len(sheet_info)
        /\ \A a \in 1..Len(sheet_info) :
               /\ sheet_info[a].sheet_name \in DataSheets
               /\ workbook[sheet_info[a].sheet_name].path = sheet_info[a].path
               /\ workbook[sheet_info[a].sheet_name].part = "full"
        /\ \A n \in DataSheets : log[workbook[n].path] = "written"

RECURSIVE AllocAll(_, _)
\* The sheet names tool t gives the files fs, processed in this order without
\* a failure.
AllocAll(t, fs) ==
    IF fs = << >> THEN << >>
    ELSE LET before == AllocAll(t, SubSeq(fs, 1, Len(fs) - 1))
         IN  Append(before, Allocate(t, fs[Len(fs)].name, Range(before)))

\* The other multi-sheet tool.
OtherTool == IF tool = "multi" THEN "easy" ELSE "multi"

\* C28: the two allocators are equivalent: in a run without a read or write
\* failure each file gets the sheet name that the other multi-sheet tool
\* gives it on the same files.
C28_AllocatorsEquivalent ==
    (MultiSheet /\ \A k \in 1..Len(log) : log[k] = "written") =>
        \A a \in 1..Len(sheet_info) :
            sheet_info[a].sheet_name = AllocAll(OtherTool, SubSeq(all_files, 1, i))[a]

\* C29: after each merge_data call on a DataMerger, file_count is the number
\* of files whose rows are in merged_data, error_files lists only failures of
\* files that are not in merged_data, and merged_data holds the tables the
\* latest call accepted and nothing else (it is empty if the call accepted no
\* file).
C29_MergerStateConsistent ==
    (tool = "data" /\ phase = "merged") =>
        /\ processed_files = Len(merged_data)
        /\ \A e \in 1..Len(error_files) :
               \A b \in 1..Len(merged_data) : merged_data[b].path # error_files[e].path
        /\ merged_data = all_dataframes

\* The dependency check and the data-file check both pass.
ChecksPass == missing_packages = {} /\ data_file

\* C30: when the dependency check or the data-file check fails no analysis
\* tool is run and the function returns False; otherwise the tools are run
\* once each in the order of ANALYSIS_TOOLS, whatever the earlier ones gave,
\* each has its one entry in results with status success, failed or error,
\* the summary report is written only after the last tool, and the function
\* returns True exactly when every tool succeeded.
C30_RunnerOrder ==
    /\ ~ChecksPass =>
          /\ ran = << >>
          /\ results = EmptyBook
          /\ summary_file = "none"
          /\ at \in { "start", "deps_ok", "returned" }
          /\ at = "returned" => retval = "False"
    /\ Len(ran) <= Len(ANALYSIS_TOOLS)
    /\ \A k \in 1..Len(ran) : ran[k] = ANALYSIS_TOOLS[k]
    /\ DOMAIN results = Range(ran)
    /\ \A t \in DOMAIN results : results[t].status \in { "success", "failed", "error" }
    /\ success_count = Cardinality({ t \in DOMAIN results : results[t].status = "success" })
    /\ summary_file = "written" => ran = ANALYSIS_TOOLS
    /\ at \in { "reported", "raised" } => ran = ANALYSIS_TOOLS
    /\ (ChecksPass /\ at = "returned") =>
          /\ ran = ANALYSIS_TOOLS
          /\ summary_file = "written"
          /\ retval = "True" <=> \A t \in DOMAIN results : results[t].status = "success"
          /\ retval \in { "True", "False" }

\* C30 witness: the first tool failed, the second raised, the third succeeded;
\* the report was written and the function returned False.
C30_Witness ==
    /\ at = "returned"
    /\ ran = ANALYSIS_TOOLS
    /\ results[ANALYSIS_TOOLS[1]].status = "failed"
    /\ results[ANALYSIS_TOOLS[2]].status = "error"
    /\ results[ANALYSIS_TOOLS[3]].status = "success"
    /\ summary_file = "written"
    /\ retval = "False"

====
